---- MODULE Spec2Model ----
(***************************************************************************)
(* Donation distribution and contribution ledger of the musaffo app.       *)
(*                                                                         *)
(* The client side (App.simulateDonation, DonationModal.handleDonate, the  *)
(* mount effects of App and the wrappers of services/api.ts) is modelled   *)
(* from the source.  The ledger store behind the HTTP endpoints is not     *)
(* part of the source tree; its operations are modelled from sections 4.1, *)
(* 4.2 and 6 of the specification.                                         *)
(***************************************************************************)
EXTENDS Integers, Sequences, FiniteSets, TLC

\* ------------------------------------------------------------------ bounds
NProjects   == 3      \* projects in the store
MaxAmount   == 4      \* largest amount typed into the donation modal
MaxRequests == 2      \* donation attempts over all sessions
MaxFaults   == 1      \* requests the store fails to answer
EffectInvocations == 2 \* React.StrictMode invokes the mount effect twice

Clients    == {"A", "B"}                   \* browser sessions running the app
ProjectIds == 1..NProjects
Donors     == {"Mehmon", "Aziz"}
Statuses   == {"active", "voting", "completed"}
Amounts    == (-1)..MaxAmount

\* ------------------------------------------------------------------- state
VARIABLES
    storeDonations,   \* ledger store: the Donation records, in creation order
    storeProjects,    \* ledger store: project id -> [currentAmount, status]
    storeDonors,      \* ledger store: donor id -> DonorAccount
    projects,         \* App state `projects` of each session
    user,             \* App state `user` of each session
    toast,            \* App state `toast` of each session
    dataLoaded,       \* the mount-time fetchProjects of each session has run
    donorLoaded,      \* the mount-time loadDonorInfo of each session has run
    pc,               \* position of each session's simulateDonation call
    amount,           \* argument of the running/last simulateDonation call
    activeProjects,   \* local `activeProjects` of the call (snapshot)
    amountPerProject, \* local `amountPerProject` of the call
    idx,              \* position of the for-loop over activeProjects
    created,          \* the call's donationsApi.create resolved
    distributed,      \* the call's donationsApi.distributeToProjects resolved
    patched,          \* project ids whose projectsApi.update resolved
    failed,           \* project ids whose projectsApi.update threw
    lastError,        \* error kind of the last rejected response of the call
    distCount,        \* successful distribute calls for the donation the user intends
    activeAtCreate,   \* project ids that were active in the store when the call's Donation was created
    stats,            \* App state `stats` of each session: <<>> for null, else <<data>>
    showDonation,     \* App state `showDonation` of each session: the donation modal is open
    timer,            \* amount held by the pending 1500 ms timer of handleDonate, 0 if none
    cancelled,        \* the modal was closed while the timer of the request was pending
    nreq,             \* donation attempts started so far
    nfaults,          \* requests the store has failed to answer so far
    runs,             \* two runs of the allocation of simulateDonation: inputs and results
    votesFor,         \* `votesFor` of each project of App state `projects` (session A)
    votesAgainst,     \* `votesAgainst` of each project of App state `projects` (session A)
    musaffo_votes,    \* localStorage 'musaffo_votes': project id -> "up", "down" or "none"
    userVotes,        \* CommunityView state `userVotes`, read from localStorage at its mount
    activeTab,        \* App state `activeTab`: CommunityView is mounted while it is "community"
    activeInitiative, \* App state `activeInitiative`: id of the open InitiativeDetail, 0 for null
    userVote,         \* InitiativeDetail state `userVote`
    aqiLoading,       \* App state `aqiLoading` (session A)
    statsLoading,     \* App state `statsLoading`
    isLoadingProjects,\* App state `isLoadingProjects`
    isLoadingNews,    \* App state `isLoadingNews`
    aqiData,          \* App state `aqiData`: "none", "live" or "fallback"
    news,             \* App state `news`: "none" or "loaded"
    pending,          \* fetches of loadAllData that have not returned or thrown yet
    loadPc,           \* position of loadAllData: "none", "fetching", "done" or "rejected"
    effectRuns,       \* times the mount effect has been invoked
    loadRuns          \* times loadAllData has been started

vars == <<storeDonations, storeProjects, storeDonors, projects, user, toast,
          dataLoaded, donorLoaded, pc, amount, activeProjects,
          amountPerProject, idx, created, distributed, patched, failed,
          lastError, distCount, activeAtCreate, stats, showDonation, timer,
          cancelled, nreq, nfaults, runs, votesFor, votesAgainst, musaffo_votes,
          userVotes, activeTab, activeInitiative, userVote, aqiLoading,
          statsLoading, isLoadingProjects, isLoadingNews, aqiData, news, pending,
          loadPc, effectRuns, loadRuns>>

storeVars  == <<storeDonations, storeProjects, storeDonors>>
callVars   == <<pc, amount, activeProjects, amountPerProject, idx, created,
                distributed, patched, failed, lastError, distCount, activeAtCreate, nreq>>

modalVars  == <<showDonation, timer, cancelled>>
voteVars   == <<votesFor, votesAgainst, musaffo_votes, userVotes, activeTab,
                activeInitiative, userVote>>
loadVars   == <<aqiLoading, statsLoading, isLoadingProjects, isLoadingNews, aqiData,
                news, pending, loadPc, effectRuns, loadRuns>>
otherVars  == <<runs, voteVars, loadVars>>

\* ----------------------------------------------------------------- helpers
RECURSIVE SumSeq(_)
SumSeq(s) == IF s = <<>> THEN 0 ELSE Head(s) + SumSeq(Tail(s))

Range(s) == {s[i] : i \in DOMAIN s}

NoContributions == [p \in ProjectIds |-> 0]

INITIAL_USER(name) ==
    [isContributor |-> FALSE, contributionAmount |-> 0, totalDonated |-> 0,
     projectContributions |-> NoContributions, name |-> name]

\* JavaScript `x || y` on numbers
OrElse(x, y) == IF x = 0 THEN y ELSE x

\* Math.floor(a / n) for n > 0
Floor(a, n) == a \div n

\* ------------------------------------------------- ledger store (section 4.1)
\* createDonation without the validation of the amount
CreateResponses_NoValidation(amt, nf) ==
    IF nf < MaxFaults THEN {"ok", "StoreUnavailableError"} ELSE {"ok"}

\* createDonation: ValidationError if amount <= 0, before anything is written;
\* otherwise the store may be unreachable
CreateResponses(amt, nf) ==
    IF amt <= 0 THEN {"ValidationError"}
    ELSE IF nf < MaxFaults THEN {"ok", "StoreUnavailableError"} ELSE {"ok"}

\* any other endpoint either answers or is unreachable
Responses(nf) == IF nf < MaxFaults THEN {"ok", "StoreUnavailableError"} ELSE {"ok"}

CountFault(resp, nf) == IF resp = "StoreUnavailableError" THEN nf + 1 ELSE nf

CreateDonation(dons, donorId, amt) ==
    Append(dons, [donorId |-> donorId, amount |-> amt])

\* GET /api/projects: the projects in id order
GetAllProjects(store) ==
    [i \in 1..NProjects |->
        [id |-> i, currentAmount |-> store[i].currentAmount, status |-> store[i].status]]

\* PATCH /api/projects/{id} with body {currentAmount}
PatchProject(store, id, newAmount) ==
    [store EXCEPT ![id].currentAmount = newAmount]

\* Distribution Engine (section 4.2): floor share for each project, the
\* remainder to the first project in id order; ids is a non-empty sequence of
\* distinct project ids
DistributionEngine(amt, ids) ==
    LET n     == Len(ids)
        share == Floor(amt, n)
        first == CHOOSE i \in 1..n : \A j \in 1..n : ids[i] <= ids[j]
    IN  [i \in 1..n |-> IF i = first THEN share + (amt - share * n) ELSE share]

\* an upsert that stores the delta instead of adding it
UpsertDonorContribution_Overwrites(accounts, donorId, projectId, delta) ==
    [accounts EXCEPT
        ![donorId].exists = TRUE,
        ![donorId].totalDonated = delta,
        ![donorId].projectContributions[projectId] = delta]

\* upsertDonorContribution: adds delta to totalDonated and to the project's entry
UpsertDonorContribution(accounts, donorId, projectId, delta) ==
    [accounts EXCEPT
        ![donorId].exists = TRUE,
        ![donorId].totalDonated = @ + delta,
        ![donorId].projectContributions[projectId] = @ + delta]

RECURSIVE ApplyShares(_, _, _, _, _)
ApplyShares(accounts, donorId, ids, shares, i) ==
    IF i > Len(ids) THEN accounts
    ELSE ApplyShares(
            IF shares[i] # 0
            THEN UpsertDonorContribution(accounts, donorId, ids[i], shares[i])
            ELSE accounts,
            donorId, ids, shares, i + 1)

\* POST /api/donations/donor/{userId}/distribute with {donationAmount, projectIds}
Distribute(accounts, donorId, amt, ids) ==
    ApplyShares(accounts, donorId, ids, DistributionEngine(amt, ids), 1)

\* GET /api/donations/donor/{userId}
GetDonorInfo(accounts, donorId) ==
    [isContributor        |-> accounts[donorId].exists,
     totalDonated         |-> accounts[donorId].totalDonated,
     projectContributions |-> accounts[donorId].projectContributions]

\* the amounts of the Donation records
AmountsOf(dons) == [i \in 1..Len(dons) |-> dons[i].amount]

\* computeStats (section 4.4)
ComputeStats(dons, projs, accounts) ==
    [totalDonations |-> SumSeq(AmountsOf(dons)),
     totalDonors    |-> Cardinality({d \in Donors : accounts[d].exists}),
     totalProjects  |-> NProjects,
     activeProjects |-> Cardinality({p \in ProjectIds : projs[p].status = "active"})]

\* GET /api/stats
GetStats(dons, projs, accounts) ==
    [status |-> "success", data |-> ComputeStats(dons, projs, accounts)]

\* ------------------------------------------------------------ client, pure
\* a fetchStats that drops the response
StatsAfterFetch_KeepsOld(cur, response) == cur

\* a fetchStats that adds the new total to the one it already shows
StatsAfterFetch_AddsUp(cur, response) ==
    IF response.status # "success" THEN cur
    ELSE IF cur = <<>> THEN <<response.data>>
    ELSE <<[response.data EXCEPT !.totalDonations = @ + cur[1].totalDonations]>>

\* fetchStats / refetchStats: if (response.status === 'success') setStats(response.data)
StatsAfterFetch(cur, response) ==
    IF response.status = "success" THEN <<response.data>> ELSE cur

\* a userId taken from INITIAL_USER instead of the session's user
UserIdOf_Initial(u) == "Mehmon"

\* const userId = user.name || 'guest'
UserIdOf(u) == IF u.name = "" THEN "guest" ELSE u.name

\* projects.filter(p => p.status === 'active')
ActiveOf(projs) == SelectSeq(projs, LAMBDA p : p.status = "active")

\* activeProjects.map(p => p.id)
IdsOf(projs) == [i \in 1..Len(projs) |-> projs[i].id]

\* AfterCreate without the `if (!response.ok) throw` of donationsApi.create
AfterCreate_IgnoresRejection(resp, projs) ==
    LET a == SelectSeq(projs, LAMBDA p : p.status = "active")
    IN  [pc     |-> IF Len(a) > 0 THEN "distribute" ELSE "donorInfo",
         toast  |-> "processing",
         active |-> a]

\* what simulateDonation does once donationsApi.create has settled
AfterCreate(resp, projs) ==
    IF resp # "ok"
    THEN [pc |-> "idle", toast |-> "failed", active |-> <<>>]
    ELSE LET a == ActiveOf(projs)
         IN  [pc     |-> IF Len(a) > 0 THEN "distribute" ELSE "donorInfo",
              toast  |-> "processing",
              active |-> a]

\* const amountPerProject = Math.floor(amount / activeProjectIds.length)
AmountPerProject(amt, n) == Floor(amt, n)

\* a loop that hands the remainder of the division to the first project of the list
AllocationOf_RemainderToFirst(amt, active) ==
    LET n == Len(active)
    IN  [i \in 1..n |-> IF i = 1 THEN amt - (n - 1) * AmountPerProject(amt, n)
                                  ELSE AmountPerProject(amt, n)]

\* for (const project of activeProjects): what the loop adds to the
\* currentAmount of each project of the list
AllocationOf(amt, active) ==
    [i \in 1..Len(active) |-> AmountPerProject(amt, Len(active))]

\* AfterPatch without the try/catch around projectsApi.update
AfterPatch_StopsOnFailure(resp, i, n) ==
    IF resp # "ok" THEN "idle" ELSE IF i < n THEN "patch" ELSE "donorInfo"

\* a loop that is followed by the refetch, without the read of the donor info
AfterPatch_SkipsDonorInfo(resp, i, n) == IF i < n THEN "patch" ELSE "refetch"

\* where the loop over activeProjects goes after the update of project i of n
AfterPatch(resp, i, n) == IF i < n THEN "patch" ELSE "donorInfo"

\* setUser(...) that leaves out projectContributions
UserAfterDonation_KeepsContributions(u, info, amt) ==
    [u EXCEPT !.isContributor = TRUE,
              !.contributionAmount = OrElse(info.totalDonated, amt),
              !.totalDonated = OrElse(info.totalDonated, amt)]

\* setUser(...) after the donor info has been read
UserAfterDonation(u, info, amt) ==
    [u EXCEPT !.isContributor = TRUE,
              !.contributionAmount = OrElse(info.totalDonated, amt),
              !.totalDonated = OrElse(info.totalDonated, amt),
              !.projectContributions = info.projectContributions]

\* setUser(...) of the mount effect loadDonorInfo
UserAfterLoad(u, info) ==
    IF info.isContributor /\ info.totalDonated > 0
    THEN [u EXCEPT !.isContributor = TRUE,
                   !.contributionAmount = info.totalDonated,
                   !.totalDonated = info.totalDonated,
                   !.projectContributions = info.projectContributions]
    ELSE u

\* -------------------------------------------------------------------- Init
\* the first k projects are active, the others are in voting or completed
InitProjects(k) ==
    [p \in ProjectIds |->
        [currentAmount |-> 0,
         status |-> IF p <= k THEN "active"
                    ELSE IF p = NProjects THEN "completed" ELSE "voting"]]

InitAppState ==
    /\ storeDonations = <<>>
    /\ \E k \in 0..NProjects : storeProjects = InitProjects(k)
    /\ storeDonors = [d \in Donors |->
            [exists |-> FALSE, totalDonated |-> 0, projectContributions |-> NoContributions]]
    /\ projects = [c \in Clients |-> <<>>]
    /\ toast = [c \in Clients |-> "none"]
    /\ dataLoaded = [c \in Clients |-> FALSE]
    /\ donorLoaded = [c \in Clients |-> FALSE]
    /\ pc = [c \in Clients |-> "idle"]
    /\ amount = [c \in Clients |-> 0]
    /\ activeProjects = [c \in Clients |-> <<>>]
    /\ amountPerProject = [c \in Clients |-> 0]
    /\ idx = [c \in Clients |-> 0]
    /\ created = [c \in Clients |-> FALSE]
    /\ distributed = [c \in Clients |-> FALSE]
    /\ patched = [c \in Clients |-> {}]
    /\ failed = [c \in Clients |-> {}]
    /\ lastError = [c \in Clients |-> "none"]
    /\ distCount = [c \in Clients |-> 0]
    /\ activeAtCreate = [c \in Clients |-> {}]
    /\ stats = [c \in Clients |-> <<>>]
    /\ showDonation = [c \in Clients |-> FALSE]
    /\ timer = [c \in Clients |-> 0]
    /\ cancelled = [c \in Clients |-> FALSE]
    /\ nreq = 0
    /\ nfaults = 0

\* INITIAL_USER for each session; session B is the same donor or another one
InitUser ==
    \E d \in Donors :
         user = [c \in Clients |-> INITIAL_USER(IF c = "A" THEN "Mehmon" ELSE d)]

InitApp == InitAppState /\ InitUser

\* no allocation run set up
InitRuns == runs = <<>>

\* nobody has voted; the home tab is shown
InitVotes ==
    /\ votesFor = [p \in ProjectIds |-> 0]
    /\ votesAgainst = [p \in ProjectIds |-> 0]
    /\ musaffo_votes = [p \in ProjectIds |-> "none"]
    /\ userVotes = [p \in ProjectIds |-> "none"]
    /\ activeTab = "home"
    /\ activeInitiative = 0
    /\ userVote = "none"

\* useState(true) of the four loading flags; the mount effect has not run
InitLoad ==
    /\ aqiLoading = TRUE
    /\ statsLoading = TRUE
    /\ isLoadingProjects = TRUE
    /\ isLoadingNews = TRUE
    /\ aqiData = "none"
    /\ news = "none"
    /\ pending = {}
    /\ loadPc = "none"
    /\ effectRuns = 0
    /\ loadRuns = 0

Init == InitApp /\ InitRuns /\ InitVotes /\ InitLoad

\* the ids of the projects whose status in the store is active
ActiveIds(projs) == {p \in ProjectIds : projs[p].status = "active"}

\* the status that follows s in the life of a project
NextStatus(s) == IF s = "voting" THEN "active" ELSE "completed"

\* FundView: the "your contribution" amount of an active project's card
UserContribution(u, projs) ==
    LET activeProjectsCount == Len(ActiveOf(projs))
    IN  IF u.totalDonated # 0 /\ activeProjectsCount > 0
        THEN Floor(u.totalDonated, activeProjectsCount)
        ELSE 0

\* ----------------------------------------------------------------- actions
\* mount effect loadAllData, once per mount: fetchStats and fetchProjects, which
\* the store answers or fails to answer together
FetchProjects(c) ==
    /\ ~dataLoaded[c]
    /\ dataLoaded' = [dataLoaded EXCEPT ![c] = TRUE]
    /\ \E resp \in Responses(nfaults) :
         /\ nfaults' = CountFault(resp, nfaults)
         /\ stats' = IF resp = "ok"
                     THEN [stats EXCEPT ![c] = StatsAfterFetch(@,
                              GetStats(storeDonations, storeProjects, storeDonors))]
                     ELSE stats
         /\ IF resp = "ok"
            THEN /\ projects' = [projects EXCEPT ![c] = GetAllProjects(storeProjects)]
                 /\ toast' = toast
            ELSE /\ projects' = projects
                 /\ toast' = [toast EXCEPT ![c] = "error_loading_projects"]
    /\ UNCHANGED <<storeVars, user, donorLoaded, callVars, modalVars, otherVars>>

\* mount effect: loadDonorInfo
LoadDonorInfo(c) ==
    /\ ~donorLoaded[c]
    /\ donorLoaded' = [donorLoaded EXCEPT ![c] = TRUE]
    /\ \E resp \in Responses(nfaults) :
         /\ nfaults' = CountFault(resp, nfaults)
         /\ user' = IF resp = "ok"
                    THEN [user EXCEPT ![c] =
                           UserAfterLoad(@, GetDonorInfo(storeDonors, UserIdOf(user[c])))]
                    ELSE user
    /\ UNCHANGED <<storeVars, projects, toast, dataLoaded, callVars>>
    /\ UNCHANGED <<stats, modalVars, otherVars>>

\* onDonate(amt): simulateDonation up to its first await
StartDonation(c, amt) ==
    /\ pc[c] = "idle"
    /\ nreq < MaxRequests
    /\ toast' = [toast EXCEPT ![c] = "processing"]
    /\ pc' = [pc EXCEPT ![c] = "create"]
    /\ amount' = [amount EXCEPT ![c] = amt]
    /\ activeProjects' = [activeProjects EXCEPT ![c] = <<>>]
    /\ amountPerProject' = [amountPerProject EXCEPT ![c] = 0]
    /\ idx' = [idx EXCEPT ![c] = 0]
    /\ created' = [created EXCEPT ![c] = FALSE]
    /\ distributed' = [distributed EXCEPT ![c] = FALSE]
    /\ patched' = [patched EXCEPT ![c] = {}]
    /\ failed' = [failed EXCEPT ![c] = {}]
    /\ lastError' = [lastError EXCEPT ![c] = "none"]
    \* the same amount again after a failed call is a retry of that donation
    /\ distCount' = [distCount EXCEPT ![c] =
          IF lastError[c] # "none" /\ amt = amount[c] THEN @ ELSE 0]
    /\ activeAtCreate' = [activeAtCreate EXCEPT ![c] = {}]
    /\ nreq' = nreq + 1
    /\ UNCHANGED <<storeVars, projects, user, dataLoaded, donorLoaded, stats, nfaults,
                   otherVars>>

\* DonationModal.handleDonate with its timer, up to the first await of
\* simulateDonation; the modal itself is not followed here
HandleDonate(c) ==
    /\ pc[c] = "idle"
    /\ nreq < MaxRequests
    /\ \E amt \in Amounts :
         IF amt = 0                                   \* if (!amount) return
         THEN UNCHANGED <<toast, callVars, storeVars, projects, user, dataLoaded,
                          donorLoaded, stats, nfaults, otherVars>>
         ELSE StartDonation(c, amt)
    /\ UNCHANGED modalVars

\* the donate button of the fund view: setShowDonation(true)
OpenDonation(c) ==
    /\ ~showDonation[c]
    /\ showDonation' = [showDonation EXCEPT ![c] = TRUE]
    /\ UNCHANGED <<storeVars, projects, user, toast, dataLoaded, donorLoaded,
                   callVars, stats, timer, cancelled, nfaults, otherVars>>

\* onClose: the X button of the modal, or its 2000 ms timer; the pending timer
\* of handleDonate is not cleared
CloseDonation(c) ==
    /\ showDonation[c]
    /\ showDonation' = [showDonation EXCEPT ![c] = FALSE]
    /\ cancelled' = [cancelled EXCEPT ![c] = (timer[c] # 0) \/ @]
    /\ UNCHANGED <<storeVars, projects, user, toast, dataLoaded, donorLoaded,
                   callVars, stats, timer, nfaults, otherVars>>

\* DonationModal.handleDonate: the click that arms the 1500 ms timer
ClickDonate(c) ==
    /\ showDonation[c]
    /\ pc[c] = "idle"
    /\ timer[c] = 0
    /\ nreq < MaxRequests
    /\ \E amt \in Amounts :
         IF amt = 0                                   \* if (!amount) return
         THEN UNCHANGED <<timer, cancelled>>
         ELSE /\ timer' = [timer EXCEPT ![c] = amt]
              /\ cancelled' = [cancelled EXCEPT ![c] = FALSE]
    /\ UNCHANGED <<storeVars, projects, user, toast, dataLoaded, donorLoaded,
                   callVars, stats, showDonation, nfaults, otherVars>>

\* the 1500 ms timer of handleDonate fires: onDonate(Number(amount))
TimerFires(c) ==
    /\ timer[c] # 0
    /\ StartDonation(c, timer[c])
    /\ timer' = [timer EXCEPT ![c] = 0]
    /\ UNCHANGED <<showDonation, cancelled>>

\* await donationsApi.create(...), then the filter of the active projects
Create(c) ==
    /\ pc[c] = "create"
    /\ \E resp \in CreateResponses(amount[c], nfaults) :
         LET next == AfterCreate(resp, projects[c]) IN
         /\ nfaults' = CountFault(resp, nfaults)
         /\ storeDonations' = IF resp = "ok"
                              THEN CreateDonation(storeDonations, UserIdOf(user[c]), amount[c])
                              ELSE storeDonations
         /\ created' = [created EXCEPT ![c] = (resp = "ok")]
         /\ activeAtCreate' = [activeAtCreate EXCEPT ![c] =
               IF resp = "ok" THEN ActiveIds(storeProjects) ELSE {}]
         /\ lastError' = [lastError EXCEPT ![c] = IF resp = "ok" THEN "none" ELSE resp]
         /\ pc' = [pc EXCEPT ![c] = next.pc]
         /\ toast' = [toast EXCEPT ![c] = next.toast]
         /\ activeProjects' = [activeProjects EXCEPT ![c] = next.active]
    /\ UNCHANGED <<storeProjects, storeDonors, projects, user, dataLoaded,
                   donorLoaded, amount, amountPerProject, idx, distributed, patched,
                   failed, distCount, nreq>>
    /\ UNCHANGED <<stats, modalVars, otherVars>>

\* await donationsApi.distributeToProjects(...), then amountPerProject
DistributeToProjects(c) ==
    /\ pc[c] = "distribute"
    /\ \E resp \in Responses(nfaults) :
         /\ nfaults' = CountFault(resp, nfaults)
         /\ IF resp = "ok"
            THEN /\ storeDonors' = Distribute(storeDonors, UserIdOf(user[c]), amount[c],
                                              IdsOf(activeProjects[c]))
                 /\ distributed' = [distributed EXCEPT ![c] = TRUE]
                 /\ distCount' = [distCount EXCEPT ![c] = @ + 1]
                 /\ amountPerProject' = [amountPerProject EXCEPT ![c] =
                       AmountPerProject(amount[c], Len(activeProjects[c]))]
                 /\ idx' = [idx EXCEPT ![c] = 1]
                 /\ pc' = [pc EXCEPT ![c] = "patch"]
                 /\ UNCHANGED <<toast, lastError>>
            ELSE /\ pc' = [pc EXCEPT ![c] = "idle"]
                 /\ toast' = [toast EXCEPT ![c] = "failed"]
                 /\ lastError' = [lastError EXCEPT ![c] = resp]
                 /\ UNCHANGED <<storeDonors, distributed, distCount, amountPerProject, idx>>
    /\ UNCHANGED <<storeDonations, storeProjects, projects, user, dataLoaded,
                   donorLoaded, amount, activeProjects, created, patched, failed, activeAtCreate, nreq>>
    /\ UNCHANGED <<stats, modalVars, otherVars>>

\* one turn of the loop: await projectsApi.update(project.id, {currentAmount: ...})
UpdateProject(c) ==
    /\ pc[c] = "patch"
    /\ LET project == activeProjects[c][idx[c]] IN
       \E resp \in Responses(nfaults) :
         /\ nfaults' = CountFault(resp, nfaults)
         /\ IF resp = "ok"
            THEN /\ storeProjects' = PatchProject(storeProjects, project.id,
                                        project.currentAmount + amountPerProject[c])
                 /\ patched' = [patched EXCEPT ![c] = @ \cup {project.id}]
                 /\ failed' = failed
            ELSE /\ storeProjects' = storeProjects
                 /\ patched' = patched
                 /\ failed' = [failed EXCEPT ![c] = @ \cup {project.id}]
         /\ pc' = [pc EXCEPT ![c] = AfterPatch(resp, idx[c], Len(activeProjects[c]))]
         /\ idx' = [idx EXCEPT ![c] = @ + 1]
    /\ UNCHANGED <<storeDonations, storeDonors, projects, user, toast,
                   dataLoaded, donorLoaded, amount, activeProjects, amountPerProject,
                   created, distributed, lastError, distCount, activeAtCreate, nreq>>
    /\ UNCHANGED <<stats, modalVars, otherVars>>

\* await donationsApi.getDonorInfo(userId), then setUser and localStorage
ReadDonorInfo(c) ==
    /\ pc[c] = "donorInfo"
    /\ \E resp \in Responses(nfaults) :
         /\ nfaults' = CountFault(resp, nfaults)
         /\ IF resp = "ok"
            THEN /\ user' = [user EXCEPT ![c] =
                       UserAfterDonation(@, GetDonorInfo(storeDonors, UserIdOf(user[c])), amount[c])]
                 /\ pc' = [pc EXCEPT ![c] = "refetch"]
                 /\ UNCHANGED <<toast, lastError>>
            ELSE /\ pc' = [pc EXCEPT ![c] = "idle"]
                 /\ toast' = [toast EXCEPT ![c] = "failed"]
                 /\ lastError' = [lastError EXCEPT ![c] = resp]
                 /\ user' = user
    /\ UNCHANGED <<storeVars, projects, dataLoaded, donorLoaded, amount,
                   activeProjects, amountPerProject, idx, created, distributed, patched,
                   failed, distCount, activeAtCreate, nreq>>
    /\ UNCHANGED <<stats, modalVars, otherVars>>

\* await Promise.all([refetchStats(), fetchProjects()]), which the store answers
\* or fails to answer together, then the success toast
Refetch(c) ==
    /\ pc[c] = "refetch"
    /\ \E resp \in Responses(nfaults) :
         /\ nfaults' = CountFault(resp, nfaults)
         /\ stats' = IF resp = "ok"
                     THEN [stats EXCEPT ![c] = StatsAfterFetch(@,
                              GetStats(storeDonations, storeProjects, storeDonors))]
                     ELSE stats
         /\ projects' = IF resp = "ok"
                        THEN [projects EXCEPT ![c] = GetAllProjects(storeProjects)]
                        ELSE projects
    /\ toast' = [toast EXCEPT ![c] = "success"]
    /\ showDonation' = [showDonation EXCEPT ![c] = FALSE]
    /\ pc' = [pc EXCEPT ![c] = "idle"]
    /\ UNCHANGED <<storeVars, user, dataLoaded, donorLoaded, amount, activeProjects,
                   amountPerProject, idx, created, distributed, patched, failed,
                   lastError, distCount, activeAtCreate, nreq, timer, cancelled,
                   otherVars>>

\* everything one session can do
Step(c) ==
    \/ FetchProjects(c)
    \/ LoadDonorInfo(c)
    \/ HandleDonate(c)
    \/ Create(c)
    \/ DistributeToProjects(c)
    \/ UpdateProject(c)
    \/ ReadDonorInfo(c)
    \/ Refetch(c)

\* one session (A) using the app against the store
InitA == Init /\ user["B"].name = "Mehmon"
Next == Step("A")
Spec == InitA /\ [][Next]_vars

\* the admin or voting process moves a project on: voting -> active -> completed
EditProjectStatus(p) ==
    /\ storeProjects[p].status # "completed"
    /\ storeProjects' = [storeProjects EXCEPT ![p].status = NextStatus(@)]
    /\ UNCHANGED <<storeDonations, storeDonors, projects, user, toast, dataLoaded,
                   donorLoaded, callVars, nfaults>>
    /\ UNCHANGED <<stats, modalVars, otherVars>>

\* one session using the app while the projects' statuses are being edited
NextAdmin == Step("A") \/ \E p \in ProjectIds : EditProjectStatus(p)
SpecAdmin == InitA /\ [][NextAdmin]_vars

\* one session using the app through the donation modal
NextModal ==
    \/ OpenDonation("A")
    \/ CloseDonation("A")
    \/ ClickDonate("A")
    \/ TimerFires("A")
    \/ FetchProjects("A")
    \/ LoadDonorInfo("A")
    \/ Create("A")
    \/ DistributeToProjects("A")
    \/ UpdateProject("A")
    \/ ReadDonorInfo("A")
    \/ Refetch("A")
SpecModal == InitA /\ [][NextModal]_vars

\* both sessions using the app concurrently against the same store
NextConc == \E c \in Clients : Step(c)
SpecConc == Init /\ [][NextConc]_vars

\* both sessions, once mounted, make one donation each, concurrently
Mounted == \A c \in Clients : dataLoaded[c] /\ donorLoaded[c]

DonateOnce(c) == Mounted /\ amount[c] = 0 /\ HandleDonate(c)

NextPair ==
    \E c \in Clients :
        \/ FetchProjects(c)
        \/ LoadDonorInfo(c)
        \/ DonateOnce(c)
        \/ Create(c)
        \/ DistributeToProjects(c)
        \/ UpdateProject(c)
        \/ ReadDonorInfo(c)
        \/ Refetch(c)
SpecPair == Init /\ [][NextPair]_vars

\* ------------------------------------------------- the allocation, as a function
appVars == <<storeVars, projects, user, toast, dataLoaded, donorLoaded, callVars,
             stats, modalVars, nfaults>>

\* the orders in which the projects can stand in a list
Orders == {f \in [ProjectIds -> ProjectIds] : \A i, j \in ProjectIds : f[i] = f[j] => i = j}

\* a `projects` list in the order f in which exactly the projects of S are
\* active, every project holding currentAmount b and the others the status st
ProjectList(f, S, b, st) ==
    [i \in 1..NProjects |->
        [id |-> f[i], currentAmount |-> b,
         status |-> IF f[i] \in S THEN "active" ELSE st]]

NewRun(amt, projs) ==
    [amount |-> amt, projects |-> projs, done |-> FALSE,
     active |-> <<>>, allocation |-> <<>>, contributions |-> NoContributions]

\* two runs are set up: the first over a list in id order, the second over a list
\* in any order, with other amounts held by the projects and another status of
\* the projects that are not active
InitEngine ==
    /\ InitApp /\ user["B"].name = "Mehmon" /\ storeProjects = InitProjects(NProjects)
    /\ InitVotes /\ InitLoad
    /\ \E a1, a2 \in 1..MaxAmount, S1, S2 \in SUBSET ProjectIds, f \in Orders :
         runs = << NewRun(a1, ProjectList([i \in ProjectIds |-> i], S1, 0, "voting")),
                   NewRun(a2, ProjectList(f, S2, MaxAmount, "completed")) >>

\* simulateDonation from the filter of the active projects to the end of the
\* loop, for an amount whose Donation was created: the project list is
\* filtered, the ids are sent to the distribute endpoint and every project of
\* the list is given amountPerProject
RunAllocation(run) ==
    LET active == ActiveOf(run.projects)
        ids    == IdsOf(active)
    IN  [run EXCEPT
            !.done = TRUE,
            !.active = active,
            !.allocation = IF Len(ids) > 0 THEN AllocationOf(run.amount, active) ELSE <<>>,
            !.contributions =
                IF Len(ids) > 0
                THEN Distribute(storeDonors, "Mehmon", run.amount, ids)["Mehmon"].projectContributions
                ELSE NoContributions]

Allocate(r) ==
    /\ ~runs[r].done
    /\ runs' = [runs EXCEPT ![r] = RunAllocation(@)]
    /\ UNCHANGED <<appVars, voteVars, loadVars>>

NextEngine == \E r \in 1..2 : Allocate(r)
SpecEngine == InitEngine /\ [][NextEngine]_vars

\* ------------------------------------------------------------------ voting
\* one session, the user a contributor or not
InitVoting ==
    /\ InitAppState /\ InitRuns /\ InitLoad /\ InitVotes
    /\ \E b \in BOOLEAN :
         user = [c \in Clients |->
                   IF b /\ c = "A"
                   THEN [INITIAL_USER("Mehmon") EXCEPT !.isContributor = TRUE,
                                                       !.totalDonated = MaxAmount]
                   ELSE INITIAL_USER("Mehmon")]

\* CommunityView: projects.filter(p => p.status === 'voting')
VotingProjects ==
    {projects["A"][i].id :
        i \in {j \in 1..Len(projects["A"]) : projects["A"][j].status = "voting"}}

\* CommunityView buttons: disabled={!user.isContributor || userVotes[p.id]}
CanVoteInList(u, votes, p) == u.isContributor /\ votes[p] = "none"

\* InitiativeDetail: buttons rendered if user.isContributor, disabled={userVote !== null}
CanVoteInDetail(u, vote) == u.isContributor /\ vote = "none"

\* App.onVote of either view: the vote is added to the project's totals
CountVote(p, type) ==
    /\ votesFor' = [votesFor EXCEPT ![p] = IF type = "up" THEN @ + 1 ELSE @]
    /\ votesAgainst' = [votesAgainst EXCEPT ![p] = IF type = "down" THEN @ + 1 ELSE @]
    /\ toast' = [toast EXCEPT !["A"] = "vote_accepted"]

unvotedVars == <<storeVars, projects, user, dataLoaded, donorLoaded, callVars, stats,
                 modalVars, nfaults, runs, loadVars>>

\* the community tab is opened: CommunityView mounts and reads localStorage
OpenCommunity ==
    /\ activeTab # "community"
    /\ activeTab' = "community"
    /\ userVotes' = musaffo_votes
    /\ UNCHANGED <<unvotedVars, toast, votesFor, votesAgainst, musaffo_votes,
                   activeInitiative, userVote>>

\* another tab is opened: CommunityView unmounts
LeaveCommunity ==
    /\ activeTab = "community"
    /\ activeInitiative = 0
    /\ activeTab' = "home"
    /\ userVotes' = [p \in ProjectIds |-> "none"]
    /\ UNCHANGED <<unvotedVars, toast, votesFor, votesAgainst, musaffo_votes,
                   activeInitiative, userVote>>

\* onInitiativeClick: InitiativeDetail mounts over the view and reads localStorage
OpenInitiative(p) ==
    /\ activeTab = "community"
    /\ activeInitiative = 0
    /\ p \in VotingProjects
    /\ activeInitiative' = p
    /\ userVote' = musaffo_votes[p]
    /\ UNCHANGED <<unvotedVars, toast, votesFor, votesAgainst, musaffo_votes,
                   userVotes, activeTab>>

\* onClose of InitiativeDetail: setActiveInitiative(null)
CloseInitiative ==
    /\ activeInitiative # 0
    /\ activeInitiative' = 0
    /\ userVote' = "none"
    /\ UNCHANGED <<unvotedVars, toast, votesFor, votesAgainst, musaffo_votes,
                   userVotes, activeTab>>

\* a vote button of a card of CommunityView
VoteInList(p, type) ==
    /\ activeTab = "community"
    /\ activeInitiative = 0
    /\ p \in VotingProjects
    /\ CanVoteInList(user["A"], userVotes, p)
    /\ CountVote(p, type)
    /\ musaffo_votes' = [musaffo_votes EXCEPT ![p] = type]
    /\ userVotes' = musaffo_votes'
    /\ UNCHANGED <<unvotedVars, activeTab, activeInitiative, userVote>>

\* InitiativeDetail.handleVote
VoteInDetail(type) ==
    /\ activeInitiative # 0
    /\ CanVoteInDetail(user["A"], userVote)
    /\ musaffo_votes' = [musaffo_votes EXCEPT ![activeInitiative] = type]
    /\ userVote' = type
    /\ CountVote(activeInitiative, type)
    /\ UNCHANGED <<unvotedVars, userVotes, activeTab, activeInitiative>>

NextVoting ==
    \/ FetchProjects("A")
    \/ OpenCommunity
    \/ LeaveCommunity
    \/ \E p \in ProjectIds : OpenInitiative(p)
    \/ CloseInitiative
    \/ \E p \in ProjectIds, type \in {"up", "down"} : VoteInList(p, type)
    \/ \E type \in {"up", "down"} : VoteInDetail(type)
SpecVoting == InitVoting /\ [][NextVoting]_vars

\* ------------------------------------------------------------ initial load
Fetches       == {"fetchAQI", "fetchStats", "fetchProjects", "fetchNews"}
FetchOutcomes == {"ok", "throws"}

\* a fetch function without its try/catch: what its request throws, it throws
FetchSettles_NoCatch(outcome) == IF outcome = "ok" THEN "resolved" ELSE "rejected"

\* fetchAQI, fetchStats, fetchProjects, fetchNews: the body is inside try/catch,
\* so the promise of the function resolves whatever the request did
FetchSettles(outcome) == "resolved"

unloadedVars == <<storeVars, user, donorLoaded, callVars, modalVars, nfaults, runs,
                  voteVars>>

\* the mount effect of App: guarded by dataLoadedRef, it starts loadAllData,
\* which sets the four flags and starts the four fetches
MountEffect ==
    /\ effectRuns < EffectInvocations
    /\ effectRuns' = effectRuns + 1
    /\ IF dataLoaded["A"]                          \* if (dataLoadedRef.current) return
       THEN UNCHANGED <<dataLoaded, aqiLoading, statsLoading, isLoadingProjects,
                        isLoadingNews, pending, loadPc, loadRuns>>
       ELSE /\ dataLoaded' = [dataLoaded EXCEPT !["A"] = TRUE]
            /\ aqiLoading' = TRUE
            /\ statsLoading' = TRUE
            /\ isLoadingProjects' = TRUE
            /\ isLoadingNews' = TRUE
            /\ pending' = Fetches
            /\ loadPc' = "fetching"
            /\ loadRuns' = loadRuns + 1
    /\ UNCHANGED <<unloadedVars, projects, toast, stats, aqiData, news>>

\* one of the four fetches returns or throws; a rejected fetch rejects the
\* Promise.all and with it loadAllData
FetchReturns(f) ==
    /\ loadPc = "fetching"
    /\ f \in pending
    /\ pending' = pending \ {f}
    /\ \E outcome \in FetchOutcomes :
         /\ aqiData' = IF f # "fetchAQI" THEN aqiData
                       ELSE IF outcome = "ok" THEN "live" ELSE "fallback"
         /\ stats' = IF f = "fetchStats" /\ outcome = "ok"
                     THEN [stats EXCEPT !["A"] = StatsAfterFetch(@,
                              GetStats(storeDonations, storeProjects, storeDonors))]
                     ELSE stats
         /\ projects' = IF f = "fetchProjects" /\ outcome = "ok"
                        THEN [projects EXCEPT !["A"] = GetAllProjects(storeProjects)]
                        ELSE projects
         /\ toast' = IF f = "fetchProjects" /\ outcome # "ok"
                     THEN [toast EXCEPT !["A"] = "error_loading_projects"]
                     ELSE toast
         /\ news' = IF f = "fetchNews" /\ outcome = "ok" THEN "loaded" ELSE news
         /\ loadPc' = IF FetchSettles(outcome) = "rejected" THEN "rejected" ELSE loadPc
    /\ UNCHANGED <<unloadedVars, dataLoaded, aqiLoading, statsLoading,
                   isLoadingProjects, isLoadingNews, effectRuns, loadRuns>>

\* the Promise.all of loadAllData has resolved: the four flags are cleared
FinishLoad ==
    /\ loadPc = "fetching"
    /\ pending = {}
    /\ aqiLoading' = FALSE
    /\ statsLoading' = FALSE
    /\ isLoadingProjects' = FALSE
    /\ isLoadingNews' = FALSE
    /\ loadPc' = "done"
    /\ UNCHANGED <<unloadedVars, dataLoaded, projects, toast, stats, aqiData, news,
                   pending, effectRuns, loadRuns>>

NextLoad ==
    \/ MountEffect
    \/ \E f \in Fetches : FetchReturns(f)
    \/ FinishLoad
SpecLoad == InitA /\ [][NextLoad]_vars

\* React runs the mount effect, every fetch returns or throws in the end, and
\* the continuation of an await that has resolved is run
SpecLoadFair ==
    /\ SpecLoad
    /\ WF_vars(MountEffect)
    /\ \A f \in Fetches : WF_vars(FetchReturns(f))
    /\ WF_vars(FinishLoad)

\* one session making its first donation, before or after its mount load, while
\* the projects' statuses are being edited
DonateFirst(c) == nreq = 0 /\ HandleDonate(c)

NextStats ==
    \/ FetchProjects("A")
    \/ LoadDonorInfo("A")
    \/ DonateFirst("A")
    \/ Create("A")
    \/ DistributeToProjects("A")
    \/ UpdateProject("A")
    \/ ReadDonorInfo("A")
    \/ Refetch("A")
    \/ \E p \in ProjectIds : EditProjectStatus(p)
SpecStats == InitA /\ [][NextStats]_vars

\* ------------------------------------------------------------------ claims
\* amounts of the Donation records of one donor
RECURSIVE DonatedBy(_, _)
DonatedBy(dons, d) ==
    IF dons = <<>> THEN 0
    ELSE (IF Head(dons).donorId = d THEN Head(dons).amount ELSE 0) + DonatedBy(Tail(dons), d)

\* the allocation simulateDonation applies: the amount it adds to each active project
ClientAllocation(c) == [i \in 1..Len(activeProjects[c]) |-> amountPerProject[c]]

AllIdle == \A c \in Clients : pc[c] = "idle"

\* C1: for a positive amount and a non-empty set of active projects, the shares
\* computed for the donation sum exactly to the amount.
AllocationConservesAmount ==
    \A c \in Clients :
        (distributed[c] /\ amount[c] > 0 /\ Len(activeProjects[c]) > 0)
            => SumSeq(ClientAllocation(c)) = amount[c]

\* C2: two concurrent donations of the same amount a to the single active
\* project leave its currentAmount increased by exactly 2 * a.
NoLostUpdate ==
    ( /\ \A c \in Clients :
            /\ pc[c] \in {"donorInfo", "refetch"}
            /\ created[c]
            /\ IdsOf(activeProjects[c]) = <<1>>
            /\ patched[c] = {1}
      /\ amount["A"] = amount["B"]
      /\ Len(storeDonations) = 2
      /\ \A p \in ProjectIds : storeProjects[p].status = "active" <=> p = 1 )
        => storeProjects[1].currentAmount = amount["A"] + amount["B"]

\* C3: whenever no donation is in progress, the totalDonated that the donor
\* info endpoint returns for a donor is the sum of that donor's Donation records
\* (stated for the runs in which the store answered every request).
TotalDonatedMatchesHistory ==
    (AllIdle /\ nfaults = 0) =>
        \A d \in Donors :
            GetDonorInfo(storeDonors, d).totalDonated = DonatedBy(storeDonations, d)

\* C4: a donation of which one project update failed and another succeeded ends
\* with a PartialDistributionError and is never presented as a success.
PartialFailureReported ==
    \A c \in Clients :
        ( /\ pc[c] = "idle"
          /\ created[c]
          /\ amountPerProject[c] > 0
          /\ failed[c] # {}
          /\ patched[c] # {} )
            => (toast[c] # "success" /\ lastError[c] = "PartialDistributionError")

\* C5: the first donation, made while no project is active, is recorded, raises
\* the donor's totalDonated by its full amount and changes no project amount
\* (stated for the runs in which the store answered every request).
ZeroActiveStillCredited ==
    \A c \in Clients :
        ( /\ pc[c] = "idle"
          /\ created[c]
          /\ nfaults = 0
          /\ Len(storeDonations) = 1
          /\ \A p \in ProjectIds : storeProjects[p].status # "active" )
            => /\ storeDonations[1].amount = amount[c]
               /\ storeDonors[user[c].name].totalDonated = amount[c]
               /\ \A p \in ProjectIds : storeProjects[p].currentAmount = 0

\* C6: the step that settles the creation of a donation with amount <= 0 ends the
\* call with a ValidationError and the failure toast, and writes nothing to the
\* store: no Donation, no Project, no DonorAccount changes.
NonPositiveAmountRejected ==
    [][\A c \in Clients :
        (pc[c] # "idle" /\ amount[c] <= 0 /\ pc'[c] # pc[c])
            => /\ UNCHANGED storeVars
               /\ pc'[c] = "idle"
               /\ toast'[c] = "failed"
               /\ lastError'[c] = "ValidationError"]_vars

NonPositiveAmountRejectedReached ==
    \E c \in Clients :
        /\ amount[c] < 0
        /\ pc[c] = "idle"
        /\ lastError[c] = "ValidationError"
        /\ toast[c] = "failed"

\* C7: every active project gets floor(amount / count) and the project with the
\* lowest id gets the remainder on top of it.
RemainderToLowestId ==
    \A c \in Clients :
        (distributed[c] /\ amount[c] > 0 /\ Len(activeProjects[c]) > 0)
            => LET n     == Len(activeProjects[c])
                   share == Floor(amount[c], n)
               IN  \A i \in 1..n :
                     ClientAllocation(c)[i] =
                        IF i = 1 THEN share + (amount[c] - share * n) ELSE share

\* C8: once the loop over the active projects is over, every project of the
\* allocation has had its update attempted, whichever of them failed.
FailureDoesNotStopLoop ==
    \A c \in Clients :
        (distributed[c] /\ pc[c] # "patch")
            => patched[c] \cup failed[c] = Range(IdsOf(activeProjects[c]))

FailureDoesNotStopLoopReached ==
    \E c \in Clients :
        /\ distributed[c]
        /\ pc[c] # "patch"
        /\ \E p \in failed[c], q \in patched[c] : p < q

\* C9: however often a failed donation is retried, its distribution is credited
\* to the donor at most once.
RetryCreditsOnce ==
    \A c \in Clients : distCount[c] <= 1

\* C10: a call that has persisted its Donation ends either with the whole
\* distribution applied or with a reported failure.
PersistedEndsAppliedOrReported ==
    \A c \in Clients :
        (pc[c] = "idle" /\ created[c])
            => \/ /\ activeProjects[c] # <<>> => distributed[c]
                  /\ patched[c] = Range(IdsOf(activeProjects[c]))
               \/ toast[c] = "failed"

\* the sessions that have started a donation call
Started == {c \in Clients : amount[c] # 0}

\* every session has made at most one donation call so far
FirstCalls == nreq = Cardinality(Started)

\* the shares that the calls of the sessions S have applied to project p
RECURSIVE AppliedBy(_, _)
AppliedBy(S, p) ==
    IF S = {} THEN 0
    ELSE LET c == CHOOSE x \in S : TRUE
         IN  (IF p \in patched[c] THEN amountPerProject[c] ELSE 0) + AppliedBy(S \ {c}, p)

\* C11: in every state each project's currentAmount is its initial amount (0)
\* plus the sum of the shares that donations have applied to it (stated for the
\* states in which every session has made at most one call, so that the applied
\* shares are those of the calls at hand, and no request has failed).
CurrentAmountIsSumOfApplied ==
    (FirstCalls /\ nfaults = 0) =>
        \A p \in ProjectIds :
            storeProjects[p].currentAmount = 0 + AppliedBy(Clients, p)

\* C12: no step, under any interleaving of donations, decreases the
\* currentAmount of a project (stated for the steps in which no request fails).
CurrentAmountNeverDecreases ==
    [][nfaults' = 0 =>
        \A p \in ProjectIds :
            storeProjects'[p].currentAmount >= storeProjects[p].currentAmount]_vars

\* the call of session c has ended as a success with every project update applied
FullyApplied(c) ==
    /\ pc[c] = "idle"
    /\ created[c]
    /\ toast[c] = "success"
    /\ patched[c] = Range(IdsOf(activeProjects[c]))

\* C13 as stated: after every fully-applied donation the donor's totalDonated
\* equals the sum of the donor's projectContributions.
TotalIsSumOfContributions ==
    \A c \in Clients :
        FullyApplied(c) => user[c].totalDonated = SumSeq(user[c].projectContributions)

\* C13: after every fully-applied donation that was distributed over at least
\* one active project, the donor's totalDonated equals the sum of the donor's
\* projectContributions, in the session's user state and in the store's account.
DistributedTotalIsSumOfContributions ==
    /\ \A c \in Clients :
          (FullyApplied(c) /\ activeProjects[c] # <<>>)
              => user[c].totalDonated = SumSeq(user[c].projectContributions)
    /\ \A d \in Donors :
          storeDonors[d].totalDonated = SumSeq(storeDonors[d].projectContributions)

DistributedTotalIsSumOfContributionsReached ==
    \E c \in Clients :
        /\ FullyApplied(c)
        /\ distributed[c]
        /\ Len(activeProjects[c]) >= 2
        /\ user[c].totalDonated > amount[c]
        /\ user[c].totalDonated = storeDonors[user[c].name].totalDonated

\* C14: no step of a donation call changes the currentAmount of, or attributes
\* a donor contribution to, a project that was not active in the store when the
\* call's Donation was created.
OnlyActiveProjectsTakePart ==
    [][\A c \in Clients : \A p \in ProjectIds :
        ( /\ pc[c] \in {"distribute", "patch"}
          /\ <<pc[c], idx[c]>> # <<pc'[c], idx'[c]>>
          /\ p \notin activeAtCreate[c] )
            => /\ storeProjects'[p].currentAmount = storeProjects[p].currentAmount
               /\ \A d \in Donors :
                    storeDonors'[d].projectContributions[p]
                        = storeDonors[d].projectContributions[p]]_vars

\* where the distribution of the Donation of session c's call stands
DonationState(c) ==
    IF ~created[c] THEN "none"
    ELSE IF pc[c] = "distribute" THEN "created"
    ELSE IF pc[c] = "patch" THEN "distributing"
    ELSE IF activeProjects[c] # <<>> /\ ~distributed[c] THEN "failed"
    ELSE IF failed[c] = {} THEN "fully-applied"
    ELSE "partially-applied"

\* the moves of the distribution of one Donation; with no active project there
\* is nothing to distribute and the Donation is fully applied once created
DonationMoves ==
    { <<"none", "created">>, <<"none", "fully-applied">>,
      <<"created", "distributing">>,
      <<"distributing", "distributing">>,
      <<"distributing", "fully-applied">>, <<"distributing", "partially-applied">> }

\* C15: the distribution of a Donation moves only along created -> distributing
\* -> fully-applied or partially-applied, it never ends as failed, and the
\* Donation records persisted so far stay as they are in every step.
DonationMovesAlongPath ==
    [][ /\ \A c \in Clients :
              \/ DonationState(c)' = DonationState(c)
              \/ DonationState(c)' = "none"
              \/ <<DonationState(c), DonationState(c)'>> \in DonationMoves
        /\ Len(storeDonations') >= Len(storeDonations)
        /\ SubSeq(storeDonations', 1, Len(storeDonations)) = storeDonations ]_vars

OnlyIncrementsWriteAmounts ==
    [][nfaults' = 0 =>
        /\ \A p \in ProjectIds :
              storeProjects'[p].currentAmount # storeProjects[p].currentAmount
                  => \E c \in Clients :
                        /\ pc[c] = "patch"
                        /\ storeProjects'[p].currentAmount
                              = storeProjects[p].currentAmount + amountPerProject[c]
        /\ \A d \in Donors :
              storeDonors'[d].totalDonated # storeDonors[d].totalDonated
                  => \E c \in Clients :
                        /\ pc[c] = "distribute"
                        /\ user[c].name = d
                        /\ storeDonors'[d].totalDonated
                              = storeDonors[d].totalDonated + amount[c] ]_vars

\* the delta that the distribute request of session c's call credits to project p
ShareOf(c, p) ==
    LET ids == IdsOf(activeProjects[c])
        at  == {i \in 1..Len(ids) : ids[i] = p}
    IN  IF at = {} THEN 0
        ELSE DistributionEngine(amount[c], ids)[CHOOSE i \in at : TRUE]

\* the deltas credited to donor d for project p by the calls of the sessions S
RECURSIVE CreditedBy(_, _, _)
CreditedBy(S, d, p) ==
    IF S = {} THEN 0
    ELSE LET c == CHOOSE x \in S : TRUE
         IN  (IF user[c].name = d /\ distributed[c] THEN ShareOf(c, p) ELSE 0)
                + CreditedBy(S \ {c}, d, p)

TwoDonationsAccumulate ==
    ( /\ AllIdle
      /\ nfaults = 0
      /\ Len(storeDonations) = 2
      /\ storeDonations[1] = storeDonations[2] )
        => LET d == storeDonations[1].donorId
               a == storeDonations[1].amount
           IN  /\ storeDonors[d].totalDonated = a + a
               /\ \A c \in Clients : amount[c] = a => user[c].totalDonated = a + a

AccountExistsFromFirstDonation ==
    [][ /\ (AllIdle' /\ nfaults' = 0) =>
              \A d \in Donors :
                  GetDonorInfo(storeDonors', d).isContributor
                      <=> DonatedBy(storeDonations', d) > 0
        /\ \A d \in Donors : storeDonors[d].exists => storeDonors'[d].exists ]_vars

\* C27: whenever no donation is in progress, the contribution that a session
\* shows on the card of an active project is the amount recorded for the
\* session's donor and that project in projectContributions (stated for the
\* runs in which the store answered every request, and for the sessions whose
\* donations have all been attributed to projects).
ShownContributionIsRecorded ==
    (AllIdle /\ nfaults = 0) =>
        \A c \in Clients : \A i \in 1..Len(projects[c]) :
            ( /\ projects[c][i].status = "active"
              /\ user[c].totalDonated = SumSeq(user[c].projectContributions)
              /\ user[c].projectContributions
                    = storeDonors[UserIdOf(user[c])].projectContributions )
                => UserContribution(user[c], projects[c])
                        = user[c].projectContributions[projects[c][i].id]

\* the order of the awaits of simulateDonation, as pairs of successive positions
CallOrder ==
    { <<"idle", "create">>,
      <<"create", "distribute">>, <<"create", "donorInfo">>, <<"create", "idle">>,
      <<"distribute", "patch">>, <<"distribute", "idle">>,
      <<"patch", "patch">>, <<"patch", "donorInfo">>,
      <<"donorInfo", "refetch">>, <<"donorInfo", "idle">>,
      <<"refetch", "idle">> }

\* the step of session c keeps to the order of the calls: no distribute call
\* without a created Donation, no PATCH without an answered distribute call, no
\* refetch without the donor info read
KeepsCallOrder(c) ==
    /\ <<pc[c], idx[c]>> # <<pc'[c], idx'[c]>> => <<pc[c], pc'[c]>> \in CallOrder
    /\ pc'[c] = "distribute" => created'[c]
    /\ pc'[c] = "patch" => created'[c] /\ distributed'[c]
    /\ pc'[c] = "refetch" => created'[c] /\ lastError'[c] = "none"

\* the success toast appears in this step of session c
ShowsSuccess(c) == toast[c] # "success" /\ toast'[c] = "success"

\* C28 as stated: the calls are issued in the fixed order, and the success
\* toast is shown only if create, distribute and the donor-info read succeeded.
CallsInOrderSuccessAfterAll ==
    [][\A c \in Clients :
        /\ KeepsCallOrder(c)
        /\ ShowsSuccess(c) =>
              pc[c] = "refetch" /\ created[c] /\ distributed[c] /\ lastError[c] = "none"]_vars

\* C28: the calls are issued in the fixed order, and the success toast is shown
\* only if create, the donor-info read and, when the session has an active
\* project to distribute to, the distribute call succeeded.
CallsInOrderSuccessAfterIssued ==
    [][\A c \in Clients :
        /\ KeepsCallOrder(c)
        /\ ShowsSuccess(c) =>
              /\ pc[c] = "refetch" /\ created[c] /\ lastError[c] = "none"
              /\ activeProjects[c] # <<>> => distributed[c]]_vars

CallsInOrderSuccessAfterIssuedReached ==
    \E c \in Clients :
        /\ pc[c] = "idle"
        /\ toast[c] = "success"
        /\ distributed[c]
        /\ Len(activeProjects[c]) >= 2
        /\ failed[c] # {}

\* C22: a donation request that the user cancelled, by closing the modal before
\* any request was sent, creates no Donation and changes no Project or
\* DonorAccount: no step of its call writes to the store.
CancelledChangesNothing ==
    [][\A c \in Clients :
        (cancelled[c] /\ <<pc[c], idx[c]>> # <<pc'[c], idx'[c]>>)
            => UNCHANGED storeVars]_vars

\* the step is a stats read of session c that the store answered
StatsRead(c) ==
    /\ \/ ~dataLoaded[c] /\ dataLoaded'[c]
       \/ pc[c] = "refetch" /\ pc'[c] = "idle"
    /\ nfaults' = nfaults

\* the amounts donated by the donors of the set S
RECURSIVE DonatedByAll(_, _)
DonatedByAll(dons, S) ==
    IF S = {} THEN 0
    ELSE LET d == CHOOSE x \in S : TRUE
         IN  DonatedBy(dons, d) + DonatedByAll(dons, S \ {d})

HoldsStatsOfOnlyDonation(c) ==
    /\ Len(stats[c]) = 1
    /\ ~dataLoaded[c]
    /\ nreq = 1
    /\ pc[c] = "idle"

NoEditSinceRead(c) ==
    /\ Len(projects[c]) = NProjects
    /\ \A i \in 1..Len(projects[c]) :
         projects[c][i].status = storeProjects[projects[c][i].id].status

DeltaOfUpdate(c) ==
    LET project == activeProjects[c][idx[c]]
    IN  project.currentAmount + amountPerProject[c]
            - storeProjects[project.id].currentAmount

\* C23: a project update whose delta is negative fails, and changes no
\* project's currentAmount.
NegativeDeltaIsRefused ==
    [][\A c \in Clients :
        (pc[c] = "patch" /\ idx'[c] = idx[c] + 1 /\ DeltaOfUpdate(c) < 0)
            => /\ activeProjects[c][idx[c]].id \in failed'[c]
               /\ storeProjects' = storeProjects]_vars

\* what a finished run gave to each project: the pairs <<project id, share>>
PerProject(run) == {<<run.active[i].id, run.allocation[i]>> : i \in 1..Len(run.active)}

\* C26: two runs of the allocation with the same amount and the same set of
\* active projects give every project the same share, whatever the order of the
\* project list, the amounts the projects hold and the statuses of the other
\* projects.
AllocationIsDeterministic ==
    ( /\ Len(runs) = 2
      /\ runs[1].done /\ runs[2].done
      /\ runs[1].amount = runs[2].amount
      /\ Range(IdsOf(runs[1].active)) = Range(IdsOf(runs[2].active)) )
        => /\ PerProject(runs[1]) = PerProject(runs[2])
           /\ runs[1].contributions = runs[2].contributions

AllocationIsDeterministicReached ==
    /\ Len(runs) = 2
    /\ runs[1].done /\ runs[2].done
    /\ runs[1].amount = MaxAmount /\ runs[2].amount = MaxAmount
    /\ Range(IdsOf(runs[1].active)) = ProjectIds
    /\ Range(IdsOf(runs[2].active)) = ProjectIds
    /\ IdsOf(runs[1].active) # IdsOf(runs[2].active)
    /\ runs[2].active[1].id = NProjects
    /\ runs[1].allocation[1] * NProjects # MaxAmount

\* C29: a user who is not a contributor never changes the vote totals of a
\* project, and a contributor changes the totals of a project at most once.
VotesCountedOnce ==
    \A p \in ProjectIds :
        votesFor[p] + votesAgainst[p] <= IF user["A"].isContributor THEN 1 ELSE 0

\* C30: loadAllData is started at most once per mount, and the four loading
\* flags all become false in the end, whether the fetches succeed or fail.
LoadsOnceAndFlagsClear ==
    /\ [](loadRuns <= 1)
    /\ <>[](~aqiLoading /\ ~statsLoading /\ ~isLoadingProjects /\ ~isLoadingNews)

LoadsOnceAndFlagsClearReached ==
    /\ effectRuns = EffectInvocations
    /\ loadRuns = 1
    /\ loadPc = "done"
    /\ ~aqiLoading /\ ~statsLoading /\ ~isLoadingProjects /\ ~isLoadingNews
    /\ aqiData = "fallback"
    /\ stats["A"] = <<>>
    /\ projects["A"] # <<>>
    /\ news = "none"

====
